---- MODULE Spec2Model ----
(***************************************************************************)
(* ExoHabit - exoplanet habitability calculator (src/exohabitability.py).  *)
(*                                                                         *)
(* The script is a Streamlit page: every widget change re-executes the     *)
(* whole script top to bottom with the widget values kept by the session.  *)
(* The model keeps the session's widget values, the module globals the     *)
(* script assigns, and what the last execution produced.                   *)
(*                                                                         *)
(* Python floats are modelled as decimal floating-point numbers with a     *)
(* four-digit mantissa: a number is [m |-> mantissa, x |-> exponent],      *)
(* value m * 10^x, with m = 0 or 1000 <= m <= 9999.  Every arithmetic      *)
(* operation rounds its result to that precision, as every float operation *)
(* of the script does (to 53 bits there).  All numbers of the script are   *)
(* non-negative.  The operations are functions, so that an argument is     *)
(* evaluated once.                                                         *)
(***************************************************************************)
EXTENDS Integers, Sequences, FiniteSets, TLC

(***************************************************************************)
(* Floating point                                                          *)
(***************************************************************************)

\* mantissa of a normalised number lies in MantLo .. MantHi
MantLo == 1000
MantHi == 9999

\* largest and smallest decimal exponent v for which 10.0 ** v is a finite,
\* non-zero double: above, float pow raises OverflowError; below, it is 0.0
MaxExp10 == 308
MinExp10 == -323

Float == [m : Int, x : Int]

Zero == [m |-> 0, x |-> 0]
\* numpy's result of a division by zero
Inf == [m |-> -1, x |-> 0]

Pow10[k \in 0..9] ==
  CASE k = 0 -> 1 [] k = 1 -> 10 [] k = 2 -> 100 [] k = 3 -> 1000
    [] k = 4 -> 10000 [] k = 5 -> 100000 [] k = 6 -> 1000000
    [] k = 7 -> 10000000 [] k = 8 -> 100000000 [] k = 9 -> 1000000000

\* number of decimal digits of n, 1 <= n < 2^31
NumDigits[n \in Int] ==
  IF n < 10 THEN 1 ELSE IF n < 100 THEN 2 ELSE IF n < 1000 THEN 3
  ELSE IF n < 10000 THEN 4 ELSE IF n < 100000 THEN 5
  ELSE IF n < 1000000 THEN 6 ELSE IF n < 10000000 THEN 7
  ELSE IF n < 100000000 THEN 8 ELSE IF n < 1000000000 THEN 9 ELSE 10

\* the float nearest to n * 10^x (round half up), n >= 0
Round[n \in Int, x \in Int, d \in 1..10] ==
  IF d <= 4 THEN [m |-> n * Pow10[4 - d], x |-> x - (4 - d)]
  ELSE LET p == Pow10[d - 4]
           q == (n + (p \div 2)) \div p
       IN IF q > MantHi THEN [m |-> MantLo, x |-> x + (d - 4) + 1]
          ELSE [m |-> q, x |-> x + (d - 4)]

Norm[n \in Int, x \in Int] ==
  IF n = 0 THEN Zero ELSE Round[n, x, NumDigits[n]]

IsInf(u) == u.m < 0

FMul[u \in Float, w \in Float] ==
  IF IsInf(u) \/ IsInf(w) THEN Inf
  ELSE Norm[u.m * w.m, u.x + w.x]

FDiv[u \in Float, w \in Float] ==
  IF IsInf(u) \/ w.m = 0 THEN Inf
  ELSE IF IsInf(w) \/ u.m = 0 THEN Zero
  ELSE Norm[(u.m * 100000) \div w.m, u.x - w.x - 5]

\* u + w and u - w (u >= w) for finite operands; an operand more than five
\* decades below the other is lost in the rounding
FAdd[u \in Float, w \in Float] ==
  IF u.m = 0 THEN w
  ELSE IF w.m = 0 THEN u
  ELSE IF u.x - w.x > 5 THEN u
  ELSE IF w.x - u.x > 5 THEN w
  ELSE IF u.x >= w.x THEN Norm[u.m * Pow10[u.x - w.x] + w.m, w.x]
  ELSE Norm[u.m + w.m * Pow10[w.x - u.x], u.x]

FSub[u \in Float, w \in Float] ==
  IF w.m = 0 THEN u
  ELSE IF u.x - w.x > 5 THEN u
  ELSE IF u.x >= w.x THEN Norm[u.m * Pow10[u.x - w.x] - w.m, w.x]
  ELSE Norm[u.m - w.m * Pow10[w.x - u.x], u.x]

FLeq(u, w) ==
  IF u.m = 0 THEN TRUE
  ELSE IF w.m = 0 THEN FALSE
  ELSE u.x < w.x \/ (u.x = w.x /\ u.m <= w.m)

FLess(u, w) == FLeq(u, w) /\ u # w

\* largest r in lo..hi with r^2 <= n
SqrtSearch[n \in Int, lo \in Int, hi \in Int] ==
  IF lo = hi THEN lo
  ELSE LET mid == (lo + hi + 1) \div 2
       IN IF mid * mid <= n THEN SqrtSearch[n, mid, hi]
          ELSE SqrtSearch[n, lo, mid - 1]

\* math.sqrt(u) and u ** 0.5
FSqrt[u \in Float] ==
  IF u.m = 0 THEN Zero
  ELSE LET k == IF (u.x - 3) % 2 = 0 THEN 3 ELSE 4
       IN [m |-> SqrtSearch[u.m * Pow10[k], MantLo, MantHi],
           x |-> (u.x - k) \div 2]

\* r^3 <= h * 10^4 for MantLo <= r <= MantHi, without leaving 32 bits
CubeLeq[r \in Int, h \in Int] ==
  LET sq == r * r
      hi == (sq \div 10000) * r
      lr == (sq % 10000) * r
      top == hi + (lr \div 10000)
  IN top < h \/ (top = h /\ lr % 10000 = 0)

\* largest r in lo..hi with r^3 <= h * 10^4
CbrtSearch[h \in Int, lo \in Int, hi \in Int] ==
  IF lo = hi THEN lo
  ELSE LET mid == (lo + hi + 1) \div 2
       IN IF CubeLeq[mid, h] THEN CbrtSearch[h, mid, hi]
          ELSE CbrtSearch[h, lo, mid - 1]

\* u ** (1/3)
FCbrt[u \in Float] ==
  IF u.m = 0 THEN Zero
  ELSE LET k == IF (u.x - 6) % 3 = 0 THEN 6
                ELSE IF (u.x - 7) % 3 = 0 THEN 7 ELSE 8
       IN [m |-> CbrtSearch[u.m * Pow10[k - 4], MantLo, MantHi],
           x |-> (u.x - k) \div 3]

Flt(m, x) == [m |-> m, x |-> x]

(***************************************************************************)
(* Module globals (lines 8-34)                                             *)
(***************************************************************************)

G == Flt(6674, -14)
sigma == Flt(5670, -11)
M_sun == Flt(1989, 27)
L_sun == Flt(3828, 23)
M_earth == Flt(5972, 21)
DAY == Flt(8640, 1)
AU == Flt(1496, 8)

\* the reference table; numbers in thousandths
planet_data ==
  << [Planet |-> "Kepler-22b", Eccentricity |-> 720, Period |-> 289860,
      Inclination |-> 89764, PlanetMass |-> 36000, StarMass |-> 970,
      StarLuminosity |-> -190],
     [Planet |-> "Kepler-452b", Eccentricity |-> 0, Period |-> 384840,
      Inclination |-> 89990, PlanetMass |-> 2000, StarMass |-> 892,
      StarLuminosity |-> 84],
     [Planet |-> "Proxima Centauri b", Eccentricity |-> 20, Period |-> 11100,
      Inclination |-> 90000, PlanetMass |-> 1070, StarMass |-> 120,
      StarLuminosity |-> -2800],
     [Planet |-> "TRAPPIST-1e", Eccentricity |-> 85, Period |-> 6090,
      Inclination |-> 89860, PlanetMass |-> 620, StarMass |-> 80,
      StarLuminosity |-> -2130],
     [Planet |-> "Gliese 12b", Eccentricity |-> 500, Period |-> 12760,
      Inclination |-> 89200, PlanetMass |-> 10000, StarMass |-> 241,
      StarLuminosity |-> -2130] >>

\* the names the script binds at module level before the tabs are built
Globals ==
  [G |-> G, sigma |-> sigma, M_sun |-> M_sun, L_sun |-> L_sun,
   M_earth |-> M_earth, DAY |-> DAY, AU |-> AU, df_planets |-> planet_data]

(***************************************************************************)
(* Input widgets (lines 48-99)                                             *)
(***************************************************************************)

One == Flt(1000, -3)

\* value= of each st.number_input; L_star_log is kept as the integer it is
\* in every input the model draws
DefaultWidgets ==
  [M_star |-> One, L_star_log |-> 0, Planet_mass |-> One, e |-> Zero,
   A |-> Flt(3000, -4), P_days |-> Flt(3650, -1), i_deg |-> Flt(9000, -2)]

\* min_value= / max_value= of each st.number_input
M_star_ok(val) == FLeq(Flt(1000, -5), val)
L_star_log_ok(val) == TRUE
Planet_mass_ok(val) == FLeq(Zero, val)
e_ok(val) == FLeq(Zero, val) /\ FLeq(val, Flt(9900, -4))
A_ok(val) == FLeq(Zero, val) /\ FLeq(val, One)
P_days_ok(val) == FLeq(Flt(1000, -4), val)
i_deg_ok(val) == FLeq(Zero, val) /\ FLeq(val, Flt(1800, -1))

(***************************************************************************)
(* Calculations (lines 102-119).  v is the script's namespace: the module  *)
(* globals, the widget values and the locals bound so far.                 *)
(***************************************************************************)

pi == Flt(3142, -3)
Two == Flt(2000, -3)
Four == Flt(4000, -3)

P_sec(v) == FMul[v.P_days, v.DAY]

\* np.sin(math.radians(i_deg)); math.radians(180) is the double nearest pi,
\* whose sine is 1.2246e-16, not 0
sin_i(v) ==
  CASE v.i_deg = Zero -> Zero
    [] v.i_deg = Flt(3000, -2) -> Flt(5000, -4)
    [] v.i_deg = Flt(9000, -2) -> One
    [] v.i_deg = Flt(1800, -1) -> Flt(1225, -19)

M_star_kg(v) == FMul[v.M_star, v.M_sun]
M_p_kg(v) == FMul[v.Planet_mass, v.M_earth]

\* u ** (2/3)
FSquare[u \in Float] == FMul[u, u]
FPow23[u \in Float] == FSquare[FCbrt[u]]

\* K with the sine in the denominator, as in the mass-from-velocity form
K_div_sin(v) ==
  LET t1 == FCbrt[FDiv[FMul[FMul[Two, pi], v.G], v.P_sec]]
      t2 == FDiv[FMul[t1, v.M_p_kg], v.sin_i]
      t3 == FDiv[t2, FPow23[FAdd[v.M_star_kg, v.M_p_kg]]]
  IN FDiv[t3, FSqrt[FSub[One, FMul[v.e, v.e]]]]

\* K with the star's mass alone in the denominator
K_star_only(v) ==
  LET t1 == FCbrt[FDiv[FMul[FMul[Two, pi], v.G], v.P_sec]]
      t2 == FMul[t1, FMul[v.M_p_kg, v.sin_i]]
      t3 == FDiv[t2, FPow23[v.M_star_kg]]
  IN FDiv[t3, FSqrt[FSub[One, FMul[v.e, v.e]]]]

K(v) ==
  LET t1 == FCbrt[FDiv[FMul[FMul[Two, pi], v.G], v.P_sec]]
      t2 == FMul[t1, FMul[v.M_p_kg, v.sin_i]]
      t3 == FDiv[t2, FPow23[FAdd[v.M_star_kg, v.M_p_kg]]]
      t4 == FMul[t3, One]
  IN FDiv[t4, FSqrt[FSub[One, FMul[v.e, v.e]]]]

\* a with the star's mass converted to kg by M_sun / M_star
a_mass_inverted(v) ==
  FCbrt[FDiv[FMul[FMul[v.G, FDiv[v.M_sun, v.M_star]],
                  FMul[v.P_sec, v.P_sec]],
             FMul[Four, FMul[pi, pi]]]]

\* the periapsis distance a (1 - e) in place of the semi-major axis
a_periapsis(v) ==
  FMul[FCbrt[FDiv[FMul[FMul[v.G, v.M_star_kg], FMul[v.P_sec, v.P_sec]],
                  FMul[Four, FMul[pi, pi]]]],
       FSub[One, v.e]]

a(v) ==
  FCbrt[FDiv[FMul[FMul[v.G, v.M_star_kg], FMul[v.P_sec, v.P_sec]],
             FMul[Four, FMul[pi, pi]]]]

\* 10 ** L_star_log raises OverflowError above the double range
L_star_raises(v) == v.L_star_log > MaxExp10

L_star(v) ==
  IF v.L_star_log < MinExp10 THEN Zero ELSE Flt(MantLo, v.L_star_log - 3)

L_star_W(v) == FMul[v.L_star, v.L_sun]
F(v) == FDiv[v.L_star_W, FMul[FMul[Four, pi], FMul[v.a, v.a]]]

\* T_eq from the reflected instead of the absorbed flux
T_eq_reflected(v) ==
  FSqrt[FSqrt[FDiv[FMul[v.F, v.A], FMul[Four, v.sigma]]]]

\* ( ... ) ** 0.25, the root of the root
T_eq(v) == FSqrt[FSqrt[FDiv[FMul[v.F, FSub[One, v.A]], FMul[Four, v.sigma]]]]

HZ_inner(v) == FMul[FMul[Flt(9500, -4), FSqrt[v.L_star]], v.AU]
HZ_outer(v) == FMul[FMul[Flt(1670, -3), FSqrt[v.L_star]], v.AU]

Habitable == "Likely Habitable"
NotHabitable == "Not in Habitable Zone"

\* the zone without its edges
habitability_exclusive(v) ==
  IF FLess(v.HZ_inner, v.a) /\ FLess(v.a, v.HZ_outer)
  THEN Habitable ELSE NotHabitable

habitability(v) ==
  IF FLeq(v.HZ_inner, v.a) /\ FLeq(v.a, v.HZ_outer)
  THEN Habitable ELSE NotHabitable

(***************************************************************************)
(* Results (lines 121-146)                                                 *)
(***************************************************************************)

\* round(u * 10^nd), for u below 10^(9-nd)
Units[u \in Float, nd \in 0..9] ==
  LET s == u.x + nd
  IN IF u.m = 0 \/ s < -5 THEN 0
     ELSE IF s >= 0 THEN u.m * Pow10[s]
     ELSE (u.m + (Pow10[-s] \div 2)) \div Pow10[-s]

\* n / 10^nd written with nd digits after the point
Digits[n \in Int, nd \in 0..9] ==
  [text |-> "num", whole |-> n \div Pow10[nd],
   frac |-> [k \in 1..nd |-> (n \div Pow10[nd - k]) % 10]]

\* f"{u:.<nd>f}": the integer part and the digits after the point
Fixed[u \in Float, nd \in 0..9] ==
  IF IsInf(u) THEN [text |-> "inf", whole |-> 0, frac |-> << >>]
  ELSE Digits[Units[u, nd], nd]

metric_K(v) == Fixed[v.K, 2]

\* the orbital distance with the precision of the radial velocity
metric_a_2dp(v) == Fixed[FDiv[v.a, v.AU], 2]

metric_a(v) == Fixed[FDiv[v.a, v.AU], 3]
metric_T_eq(v) == Fixed[v.T_eq, 1]

(***************************************************************************)
(* Learn & Discover (lines 159-170)                                        *)
(***************************************************************************)

\* len(facts)
NumFacts == 6

(***************************************************************************)
(* One execution of the script                                             *)
(***************************************************************************)

With(v, name, val) == (name :> val) @@ v

\* body with val bound to its parameter, val evaluated once
Let(val, body(_)) == CHOOSE r \in {body(w) : w \in {val}} : TRUE

\* the planet mass converted in place: M_earth *= Planet_mass
Locals1_rebinds_M_earth(v0) ==
  Let(With(v0, "P_sec", P_sec(v0)), LAMBDA v1 :
  Let(With(v1, "sin_i", sin_i(v1)), LAMBDA v2 :
  Let(With(v2, "M_star_kg", M_star_kg(v2)), LAMBDA v3 :
  Let(With(v3, "M_earth", M_p_kg(v3)), LAMBDA v4 :
  Let(With(v4, "M_p_kg", v4.M_earth), LAMBDA v5 :
  Let(With(v5, "K", K(v5)), LAMBDA v6 :
  With(v6, "a", a(v6))))))))

\* lines 102-110: the names bound before the luminosity is read
Locals1(v0) ==
  Let(With(v0, "P_sec", P_sec(v0)), LAMBDA v1 :
  Let(With(v1, "sin_i", sin_i(v1)), LAMBDA v2 :
  Let(With(v2, "M_star_kg", M_star_kg(v2)), LAMBDA v3 :
  Let(With(v3, "M_p_kg", M_p_kg(v3)), LAMBDA v4 :
  Let(With(v4, "K", K(v4)), LAMBDA v5 :
  With(v5, "a", a(v5)))))))

\* lines 112-119
Locals2(v6) ==
  Let(With(v6, "L_star", L_star(v6)), LAMBDA v7 :
  Let(With(v7, "L_star_W", L_star_W(v7)), LAMBDA v8 :
  Let(With(v8, "F", F(v8)), LAMBDA v9 :
  Let(With(v9, "T_eq", T_eq(v9)), LAMBDA v10 :
  Let(With(v10, "HZ_inner", HZ_inner(v10)), LAMBDA v11 :
  Let(With(v11, "HZ_outer", HZ_outer(v11)), LAMBDA v12 :
  With(v12, "habitability", habitability(v12))))))))

\* The namespace one execution leaves.  The execution starts from the module
\* globals and the widget values; an exception raised at line 112 ends it
\* there, with the names bound so far.
Execute(widgets) ==
  Let(Globals @@ widgets, LAMBDA v0 :
  Let(Locals1(v0), LAMBDA v6 :
  IF L_star_raises(v6) THEN v6 ELSE Locals2(v6)))

Raised(v) == "L_star" \notin DOMAIN v

\* The page one execution builds (lines 121-229).  After an exception
\* Streamlit shows the exception in place of the rest of the page: nothing
\* below the failing line is rendered.  fact is the index of the fact
\* st.info shows (0: none).
Present(v, clicked, choice) ==
  IF Raised(v)
  THEN [status |-> "OverflowError", metrics |-> << >>, label |-> "",
        rendered |-> {"inputs"}, fact |-> 0]
  ELSE [status |-> "ok",
        metrics |-> [K |-> metric_K(v), a |-> metric_a(v),
                     T_eq |-> metric_T_eq(v)],
        label |-> v.habitability,
        rendered |-> {"inputs", "results", "data", "learn", "notes"},
        fact |-> IF clicked THEN choice ELSE 0]

(***************************************************************************)
(* State                                                                   *)
(***************************************************************************)

VARIABLES
  session,   \* the widget values Streamlit keeps between executions
  module,    \* the script's namespace as the last execution left it
  page,      \* what the last execution rendered
  first      \* the first execution: its widget values, namespace and page

vars == <<session, module, page, first>>

\* how many of the floats next above 1.0 are tried as star mass
MaxUlps == 1

\* values the user types; the widgets refuse those outside their range
StarMasses ==
  {Zero, Flt(1000, -5)} \cup {Flt(MantLo + k, -3) : k \in 0..MaxUlps}
LogLuminosities == {-400, 0, 400}
PlanetMasses == {One, Flt(3330, 0)}
Eccentricities == {Zero, Flt(9900, -4), One}
Albedos == {Zero, Flt(3000, -4), One, Flt(1500, -3)}
Periods == {Zero, Flt(3650, -1), Flt(3384, -1), Flt(7884, -1)}
Inclinations ==
  {Zero, Flt(3000, -2), Flt(9000, -2), Flt(1800, -1), Flt(2000, -1)}

Init ==
  /\ session = DefaultWidgets
  /\ module = Execute(DefaultWidgets)
  /\ page = Present(Execute(DefaultWidgets), FALSE, 0)
  /\ first = [session |-> DefaultWidgets,
              module |-> Execute(DefaultWidgets),
              page |-> Present(Execute(DefaultWidgets), FALSE, 0)]

\* a widget change stores the value and re-executes the script
Rerun(widgets) ==
  \E v \in {Execute(widgets)} :
    /\ session' = widgets
    /\ module' = v
    /\ page' = Present(v, FALSE, 0)
    /\ UNCHANGED first

SetM_star ==
  \E val \in StarMasses :
    M_star_ok(val) /\ Rerun([session EXCEPT !.M_star = val])

SetL_star_log ==
  \E val \in LogLuminosities :
    L_star_log_ok(val) /\ Rerun([session EXCEPT !.L_star_log = val])

SetPlanet_mass ==
  \E val \in PlanetMasses :
    Planet_mass_ok(val) /\ Rerun([session EXCEPT !.Planet_mass = val])

Set_e ==
  \E val \in Eccentricities :
    e_ok(val) /\ Rerun([session EXCEPT !.e = val])

Set_A ==
  \E val \in Albedos :
    A_ok(val) /\ Rerun([session EXCEPT !.A = val])

SetP_days ==
  \E val \in Periods :
    P_days_ok(val) /\ Rerun([session EXCEPT !.P_days = val])

Set_i_deg ==
  \E val \in Inclinations :
    i_deg_ok(val) /\ Rerun([session EXCEPT !.i_deg = val])

\* the button of tab 3: the execution it triggers sees st.button return
\* True, if it gets as far as line 169
ShowFact ==
  \E v \in {Execute(session)} :
    \E choice \in 1..NumFacts :
      /\ module' = v
      /\ page' = Present(v, TRUE, choice)
      /\ UNCHANGED <<session, first>>

Next ==
  \/ SetM_star
  \/ SetL_star_log
  \/ SetPlanet_mass
  \/ Set_e
  \/ Set_A
  \/ SetP_days
  \/ Set_i_deg
  \/ ShowFact

Spec == Init /\ [][Next]_vars

(***************************************************************************)
(* Properties                                                              *)
(***************************************************************************)

Ok == page.status = "ok"
Deg180 == Flt(1800, -1)
Deg90 == Flt(9000, -2)

\* the step changed the widget named name and no other
OnlyChanged(name) ==
  /\ session'[name] # session[name]
  /\ \A other \in DOMAIN session \ {name} : session'[other] = session[other]

\* C1: the classification is the habitable label exactly when
\* HZ_inner <= a <= HZ_outer, both ends included, and the other label
\* otherwise.
C1_InclusiveZone ==
  Ok =>
    /\ page.label \in {Habitable, NotHabitable}
    /\ page.label = Habitable <=>
         (FLeq(module.HZ_inner, module.a) /\ FLeq(module.a, module.HZ_outer))
    /\ module.a = module.HZ_inner => page.label = Habitable
    /\ module.a = module.HZ_outer => page.label = Habitable

\* the orbital radius sits exactly on the inner edge of a non-empty zone
C1_OnInnerEdge ==
  /\ Ok
  /\ module.a = module.HZ_inner
  /\ FLess(module.HZ_inner, module.HZ_outer)
  /\ page.label = Habitable

LuminosityInDomain(w) ==
  MinExp10 <= w.L_star_log /\ w.L_star_log <= MaxExp10

\* C3: an evaluation whose luminosity is outside the domain fails with a
\* validation error before any formula is evaluated, so that no luminosity
\* that reaches the formulas is non-positive or unrepresentable.
C3_ValidatedBeforeFormulas ==
  /\ ~LuminosityInDomain(session) =>
       /\ page.status = "ValidationError"
       /\ DOMAIN module \cap {"K", "a", "F", "T_eq", "HZ_inner", "HZ_outer"} = {}
  /\ "L_star" \in DOMAIN module => FLess(Zero, module.L_star)

\* The other direction of the radial-velocity relation (spec, section 4.1,
\* step 2):  M_p = K sqrt(1 - e^2) M_star^(2/3) (P / (2 pi G))^(1/3) / sin(i)
MassFromVelocity(v) ==
  LET t1 == FMul[v.K, FSqrt[FSub[One, FMul[v.e, v.e]]]]
      t2 == FMul[t1, FPow23[v.M_star_kg]]
      t3 == FMul[t2, FCbrt[FDiv[v.P_sec, FMul[FMul[Two, pi], v.G]]]]
  IN FDiv[t3, v.sin_i]

\* the two numbers agree to a relative 1%: ten roundings of the arithmetic
RelTol == Flt(1010, -3)
Close(u, w) == FLeq(u, FMul[w, RelTol]) /\ FLeq(w, FMul[u, RelTol])

AwayFromPoles == session.i_deg \notin {Zero, Deg180}

\* C4 as stated: the mass recovered from K by the mass-from-velocity
\* formula is the planet mass K was computed from.
C4_RoundTripIdentity ==
  AwayFromPoles => Close(MassFromVelocity(module), module.M_p_kg)

\* what the round trip returns: M_p (M_star / (M_star + M_p))^(2/3)
Shortfall(v) ==
  FMul[v.M_p_kg, FPow23[FDiv[v.M_star_kg, FAdd[v.M_star_kg, v.M_p_kg]]]]

\* C4 as amended: the round trip returns the planet mass scaled by
\* (M_star / (M_star + M_p))^(2/3): never more than the original mass, and
\* the original mass only to the extent that the planet is negligible next
\* to the star.
C4_RoundTripShortfall ==
  AwayFromPoles =>
    /\ Close(MassFromVelocity(module), Shortfall(module))
    /\ FLeq(MassFromVelocity(module), FMul[module.M_p_kg, RelTol])

\* a planet as heavy as its star: the round trip loses a third of the mass
C4_HeavyPlanet ==
  /\ session.i_deg = Deg90
  /\ session.Planet_mass = Flt(3330, 0)
  /\ session.M_star = Flt(1000, -5)
  /\ FLess(MassFromVelocity(module), FMul[module.M_p_kg, Flt(7000, -4)])

\* the outputs the calculator derives from the inputs
Outputs(v) ==
  [name \in DOMAIN v \cap {"K", "a", "T_eq", "habitability"} |-> v[name]]

C6_ErrorConfined ==
  ~Ok => {"data", "learn", "notes"} \subseteq page.rendered

\* the input grew by at least 1%
GrewClearly(u, w) == FLeq(FMul[u, RelTol], w)

C8_Decreasing ==
  [][(Ok /\ Ok') =>
       /\ (OnlyChanged("A") /\ FLess(session.A, session'.A))
            => /\ module'.F = module.F
               /\ FLeq(module'.T_eq, module.T_eq)
               /\ (FLess(Zero, module.F)
                   /\ FLeq(FAdd[session.A, Flt(1000, -4)], session'.A))
                    => FLess(module'.T_eq, module.T_eq)
       /\ (/\ session'.L_star_log = session.L_star_log
           /\ session'.A = session.A
           /\ FLess(module.a, module'.a))
            => /\ FLeq(module'.T_eq, module.T_eq)
               /\ (/\ FLess(Zero, module.L_star)
                   /\ FLess(session.A, One)
                   /\ GrewClearly(module.a, module'.a))
                    => FLess(module'.T_eq, module.T_eq)]_vars

\* a planet that reflects everything under a shining star: temperature 0
C8_FullAlbedo ==
  /\ Ok
  /\ session.A = One
  /\ FLess(Zero, module.F)
  /\ module.T_eq = Zero

Decimals(shown) == Len(shown.frac)

\* C9 as stated: 2 decimal places for the radial velocity and for the
\* orbital distance, 1 for the temperature, one of two labels.
C9_TwoTwoOne ==
  Ok =>
    /\ Decimals(page.metrics.K) = 2
    /\ Decimals(page.metrics.a) = 2
    /\ Decimals(page.metrics.T_eq) = 1
    /\ page.label \in {Habitable, NotHabitable}

\* C9 as amended: 2 decimal places for the radial velocity, 3 for the
\* orbital distance in AU, 1 for the temperature, one of two labels.
C9_TwoThreeOne ==
  Ok =>
    /\ \A name \in {"K", "a", "T_eq"} : page.metrics[name].text = "num"
    /\ Decimals(page.metrics.K) = 2
    /\ Decimals(page.metrics.a) = 3
    /\ Decimals(page.metrics.T_eq) = 1
    /\ page.label \in {Habitable, NotHabitable}
    /\ page.label = module.habitability

\* an orbit on the outer edge of the zone, shown as 1.670 AU
C9_ShownToThousandths ==
  /\ Ok
  /\ page.metrics.a = [text |-> "num", whole |-> 1, frac |-> <<6, 7, 0>>]

\* C10: two evaluations that agree on star_mass and orbital_period_days
\* have the same orbital radius whatever their eccentricity and
\* inclination, and with the same luminosity the same classification.
C10_RadiusIgnoresShape ==
  [][(/\ session'.M_star = session.M_star
      /\ session'.P_days = session.P_days)
       => /\ module'.a = module.a
          /\ (Ok /\ Ok' /\ session'.L_star_log = session.L_star_log)
               => page'.label = page.label]_vars

\* the first run's star and period on a face-on, elongated orbit
C10_OtherShape ==
  /\ session.e = Flt(9900, -4)
  /\ session.i_deg = Zero
  /\ session.M_star = first.session.M_star
  /\ session.P_days = first.session.P_days
  /\ module.a = first.module.a
====
